---- MODULE Spec2Model ----
(***************************************************************************)
(* TalentScout hiring assistant (src/main.py): the applicant profile, its  *)
(* validators, the prompt sequencer and the per-input processing step.     *)
(*                                                                         *)
(* A text is a sequence of one-character strings.  A profile field is     *)
(* None (absent, <<>>) or Some(v) (populated, <<v>>).  One action models  *)
(* one script run that received an input from st.chat_input.              *)
(***************************************************************************)
EXTENDS Integers, Sequences, FiniteSets, TLC

VARIABLES messages, applicant_info, current_field_to_fill,
          conversation_finished, gen_calls

vars == <<messages, applicant_info, current_field_to_fill,
          conversation_finished, gen_calls>>

(* ------------------------------ bounds -------------------------------- *)

\* Largest number of rejected inputs explored in one session.
MaxRetries == 2

(* --------------------------- characters ------------------------------- *)

UpperLetters == <<"A","B","C","D","E","F","G","H","I","J","K","L","M",
                  "N","O","P","Q","R","S","T","U","V","W","X","Y","Z">>
LowerLetters == <<"a","b","c","d","e","f","g","h","i","j","k","l","m",
                  "n","o","p","q","r","s","t","u","v","w","x","y","z">>
DecimalDigits == <<"0","1","2","3","4","5","6","7","8","9">>

Range(s) == {s[i] : i \in 1..Len(s)}

UpperSet == Range(UpperLetters)
AlphaSet == Range(UpperLetters) \cup Range(LowerLetters)
DecimalSet == Range(DecimalDigits)

\* str.isalpha / str.isspace / str.isdigit / str.isdecimal on one character
isalpha(c) == c \in AlphaSet
isspace(c) == c \in {" ", "\t"}
isdecimal(c) == c \in DecimalSet
\* (the two agree on the characters of Inputs)
isdigit(c) == isdecimal(c)

IndexIn(s, c) == CHOOSE i \in 1..Len(s) : s[i] = c

\* str.lower on one character and on a text
LowerChar(c) == IF c \in UpperSet
                THEN LowerLetters[IndexIn(UpperLetters, c)] ELSE c
lower(s) == [i \in 1..Len(s) |-> LowerChar(s[i])]

\* str.strip: drop leading and trailing whitespace
strip(s) ==
    LET keep == {i \in 1..Len(s) : ~isspace(s[i])} IN
    IF keep = {} THEN <<>>
    ELSE LET lo == CHOOSE i \in keep : \A j \in keep : i <= j
             hi == CHOOSE i \in keep : \A j \in keep : j <= i
         IN  SubSeq(s, lo, hi)

\* the positions of character c in s
Positions(s, c) == {i \in 1..Len(s) : s[i] = c}

(* --------------------------- field values ----------------------------- *)

None == <<>>
Some(v) == <<v>>
IsNone(x) == x = None
Val(x) == x[1]

FieldOrder == <<"name", "email", "phone", "experience", "position",
                "location", "tech_stack">>
Fields == Range(FieldOrder)

\* ApplicantInfo(): every field defaults to None
ApplicantInfo == [f \in Fields |-> None]

(* ------------------------------ float --------------------------------- *)

\* A float is [cls, neg, int, frac]: cls is "fin", "inf" or "nan"; a finite
\* value is (-1)^neg * (int + 0.frac), frac without trailing zeros.
NaN == [cls |-> "nan", neg |-> FALSE, int |-> 0, frac |-> <<>>]
Inf(neg) == [cls |-> "inf", neg |-> neg, int |-> 0, frac |-> <<>>]

DigitVal(c) == IndexIn(DecimalDigits, c) - 1

RECURSIVE IntVal(_)
IntVal(s) == IF s = <<>> THEN 0
             ELSE 10 * IntVal(SubSeq(s, 1, Len(s) - 1)) + DigitVal(s[Len(s)])

RECURSIVE DropTrailingZeros(_)
DropTrailingZeros(s) ==
    IF s # <<>> /\ s[Len(s)] = "0"
    THEN DropTrailingZeros(SubSeq(s, 1, Len(s) - 1)) ELSE s

AllDecimal(s) == \A i \in 1..Len(s) : isdecimal(s[i])

\* float(user_input) for texts without exponent or underscore: whitespace is
\* stripped, then [sign] (nan | inf | infinity | digits[.digits] | .digits).
\* The result is None where float() raises ValueError.
ParseFloat(raw) ==
    LET s == strip(raw)
        signed == s # <<>> /\ s[1] \in {"+", "-"}
        neg == s # <<>> /\ s[1] = "-"
        body == IF signed THEN SubSeq(s, 2, Len(s)) ELSE s
        word == lower(body)
        dots == Positions(body, ".")
    IN  IF word = <<"n","a","n">> THEN Some(NaN)
        ELSE IF word \in {<<"i","n","f">>, <<"i","n","f","i","n","i","t","y">>}
             THEN Some(Inf(neg))
        ELSE IF body = <<>> THEN None
        ELSE IF dots = {} THEN
             IF AllDecimal(body)
             THEN Some([cls |-> "fin", neg |-> neg, int |-> IntVal(body),
                        frac |-> <<>>])
             ELSE None
        ELSE IF Cardinality(dots) = 1 THEN
             LET d == CHOOSE i \in dots : TRUE
                 ip == SubSeq(body, 1, d - 1)
                 fp == SubSeq(body, d + 1, Len(body))
             IN  IF AllDecimal(ip) /\ AllDecimal(fp) /\ Len(ip) + Len(fp) > 0
                 THEN Some([cls |-> "fin", neg |-> neg, int |-> IntVal(ip),
                            frac |-> DropTrailingZeros(fp)])
                 ELSE None
        ELSE None

\* v < 0 on floats: false for NaN and for -0.0
LessThanZero(v) ==
    \/ v.cls = "inf" /\ v.neg
    \/ v.cls = "fin" /\ v.neg /\ (v.int > 0 \/ v.frac # <<>>)

\* v >= 0 on floats: false for NaN
AtLeastZero(v) ==
    \/ v.cls = "inf" /\ ~v.neg
    \/ v.cls = "fin" /\ ~LessThanZero(v)

(* ------------------------------ email --------------------------------- *)

isalnum(c) == isalpha(c) \/ isdecimal(c)

\* the dot-separated parts of s
RECURSIVE SplitDots(_)
SplitDots(s) ==
    LET dots == Positions(s, ".") IN
    IF dots = {} THEN <<s>>
    ELSE LET d == CHOOSE i \in dots : \A j \in dots : i <= j
         IN  <<SubSeq(s, 1, d - 1)>> \o SplitDots(SubSeq(s, d + 1, Len(s)))

AllAlnum(s) == \A i \in 1..Len(s) : isalnum(s[i])

\* the syntax email_validator accepts, over letters, digits, "." and "@":
\* one "@", a dot-atom local part, a domain of at least two labels
EmailSyntaxOk(s) ==
    LET ats == Positions(s, "@") IN
    /\ Cardinality(ats) = 1
    /\ LET a == CHOOSE i \in ats : TRUE
           loc == SplitDots(SubSeq(s, 1, a - 1))
           dom == SplitDots(SubSeq(s, a + 1, Len(s)))
       IN  /\ \A i \in 1..Len(loc) : loc[i] # <<>> /\ AllAlnum(loc[i])
           /\ Len(dom) >= 2
           /\ \A i \in 1..Len(dom) : dom[i] # <<>> /\ AllAlnum(dom[i])
           /\ ~AllDecimal(dom[Len(dom)])

\* the normalized form: local part kept, domain lower-cased
NormalizeEmail(s) ==
    LET a == CHOOSE i \in Positions(s, "@") : TRUE IN
    SubSeq(s, 1, a) \o lower(SubSeq(s, a + 1, Len(s)))

\* EmailStr validation: the address is stripped, checked and stored in
\* normalized form.  None where validation fails.
EmailStr(v) ==
    LET s == strip(v) IN
    IF EmailSyntaxOk(s) THEN Some(NormalizeEmail(s)) ELSE None

(* ---------------------------- validators ------------------------------ *)

\* A validation outcome: ok with the value to store, or the first message.
Ok(v) == [ok |-> TRUE, val |-> v, msg |-> "none"]
Err(m) == [ok |-> FALSE, val |-> None, msg |-> m]

PhoneLen == 10

\* @validator("name")
validate_name(v) ==
    IF (~ \A i \in 1..Len(v) : isalpha(v[i]) \/ isspace(v[i])) \/ strip(v) = <<>>
    THEN Err("Value error, Name must contain only alphabetic characters and spaces.")
    ELSE Ok(Some(v))

\* @validator("phone")
validate_phone(v) ==
    IF (~ (v # <<>> /\ \A i \in 1..Len(v) : isdigit(v[i]))) \/ Len(v) # PhoneLen
    THEN Err("Value error, Phone number must be 10 digits (digits only).")
    ELSE Ok(Some(v))

\* @validator("experience")
validate_experience(v) ==
    IF LessThanZero(v)
    THEN Err("Value error, Experience cannot be negative.")
    ELSE Ok(Some(v))

\* @validator("position", "location", "tech_stack")
validate_not_empty(v) ==
    IF strip(v) = <<>>
    THEN Err("Value error, This field cannot be empty.")
    ELSE Ok(Some(v))

\* the EmailStr field type
validate_email(v) ==
    LET e == EmailStr(v) IN
    IF IsNone(e) THEN Err("value is not a valid email address") ELSE Ok(e)

\* ValidateField with experience declared with the default 0 instead of None
ValidateField_default(f, x) ==
    IF IsNone(x)
    THEN IF f = "experience"
         THEN Ok(Some([cls |-> "fin", neg |-> FALSE, int |-> 0, frac |-> <<>>]))
         ELSE Ok(None)
    ELSE CASE f = "name" -> validate_name(Val(x))
           [] f = "email" -> validate_email(Val(x))
           [] f = "phone" -> validate_phone(Val(x))
           [] f = "experience" -> validate_experience(Val(x))
           [] OTHER -> validate_not_empty(Val(x))

\* validation of one field of the input mapping; None passes every validator
ValidateField(f, x) ==
    IF IsNone(x) THEN Ok(None)
    ELSE CASE f = "name" -> validate_name(Val(x))
           [] f = "email" -> validate_email(Val(x))
           [] f = "phone" -> validate_phone(Val(x))
           [] f = "experience" -> validate_experience(Val(x))
           [] OTHER -> validate_not_empty(Val(x))

\* ApplicantInfo.model_validate(data): every field of the mapping is
\* validated, keys that are not fields are ignored; the error reported first
\* is that of the first failing field in declaration order.
model_validate(data) ==
    LET res == [f \in Fields |-> ValidateField(f, data[f])]
        bad == {i \in 1..Len(FieldOrder) : ~res[FieldOrder[i]].ok}
    IN  IF bad = {}
        THEN [ok |-> TRUE, kind |-> "none", msg |-> "none",
              profile |-> [f \in Fields |-> res[f].val]]
        ELSE LET i == CHOOSE k \in bad : \A j \in bad : k <= j
             IN  [ok |-> FALSE, kind |-> "ValidationError",
                  msg |-> res[FieldOrder[i]].msg,
                  profile |-> ApplicantInfo]

\* temp_data started from an empty mapping
model_dump_empty(p) == [f \in Fields |-> None]

\* model_dump(): the mapping of field names to stored values
model_dump(p) == [f \in Fields |-> p[f]]

\* the location answer written under the position key
TargetKey_slip(field) == IF field = "location" THEN "position" ELSE field

\* the key of temp_data that receives the converted input
TargetKey(field) == field

\* lines 238-248: dump, set the pending key to the (converted) input and
\* validate.  float() raising ValueError fails before anything is validated.
Update(p, field, user_input) ==
    LET temp_data == model_dump(p)
        key == TargetKey(field)
    IN  IF field = "experience" /\ IsNone(ParseFloat(user_input))
        THEN [ok |-> FALSE, kind |-> "ValueError",
              msg |-> "could not convert string to float",
              profile |-> ApplicantInfo]
        ELSE IF key \in Fields
        THEN model_validate([temp_data EXCEPT ![key] =
                 IF field = "experience" THEN ParseFloat(user_input)
                 ELSE Some(user_input)])
        ELSE model_validate(temp_data)

(* ----------------------------- sequencer ------------------------------ *)

NoField == "None"
GENERATE == "generate_questions"

\* get_next_prompt with the phone test ahead of the email test
get_next_prompt_swapped(p) ==
    IF IsNone(p.name) THEN [prompt |-> <<"ask_name", <<>>>>, field |-> "name"]
    ELSE IF IsNone(p.phone) THEN [prompt |-> <<"ask_phone", <<>>>>, field |-> "phone"]
    ELSE IF IsNone(p.email)
         THEN [prompt |-> <<"ask_email", Val(p.name)>>, field |-> "email"]
    ELSE IF IsNone(p.experience)
         THEN [prompt |-> <<"ask_experience", <<>>>>, field |-> "experience"]
    ELSE IF IsNone(p.position)
         THEN [prompt |-> <<"ask_position", <<>>>>, field |-> "position"]
    ELSE IF IsNone(p.location)
         THEN [prompt |-> <<"ask_location", <<>>>>, field |-> "location"]
    ELSE IF IsNone(p.tech_stack)
         THEN [prompt |-> <<"ask_tech_stack", <<>>>>, field |-> "tech_stack"]
    ELSE [prompt |-> <<"ack_template", <<>>>>, field |-> "generate_questions"]

\* get_next_prompt without the location test
get_next_prompt_skip(p) ==
    IF IsNone(p.name) THEN [prompt |-> <<"ask_name", <<>>>>, field |-> "name"]
    ELSE IF IsNone(p.email)
         THEN [prompt |-> <<"ask_email", Val(p.name)>>, field |-> "email"]
    ELSE IF IsNone(p.phone) THEN [prompt |-> <<"ask_phone", <<>>>>, field |-> "phone"]
    ELSE IF IsNone(p.experience)
         THEN [prompt |-> <<"ask_experience", <<>>>>, field |-> "experience"]
    ELSE IF IsNone(p.position)
         THEN [prompt |-> <<"ask_position", <<>>>>, field |-> "position"]
    ELSE IF IsNone(p.tech_stack)
         THEN [prompt |-> <<"ask_tech_stack", <<>>>>, field |-> "tech_stack"]
    ELSE [prompt |-> <<"ack_template", <<>>>>, field |-> "generate_questions"]

\* get_next_prompt: the prompt template and the field to fill next
get_next_prompt(p) ==
    IF IsNone(p.name) THEN [prompt |-> <<"ask_name", <<>>>>, field |-> "name"]
    ELSE IF IsNone(p.email)
         THEN [prompt |-> <<"ask_email", Val(p.name)>>, field |-> "email"]
    ELSE IF IsNone(p.phone) THEN [prompt |-> <<"ask_phone", <<>>>>, field |-> "phone"]
    ELSE IF IsNone(p.experience)
         THEN [prompt |-> <<"ask_experience", <<>>>>, field |-> "experience"]
    ELSE IF IsNone(p.position)
         THEN [prompt |-> <<"ask_position", <<>>>>, field |-> "position"]
    ELSE IF IsNone(p.location)
         THEN [prompt |-> <<"ask_location", <<>>>>, field |-> "location"]
    ELSE IF IsNone(p.tech_stack)
         THEN [prompt |-> <<"ask_tech_stack", <<>>>>, field |-> "tech_stack"]
    ELSE [prompt |-> <<"ack_template", <<>>>>, field |-> GENERATE]

\* ack template .format(tech_stack=...)
AckMessage(tech_stack) == <<"ack", tech_stack>>

(* ------------------------- generation adapter ------------------------- *)

Fallback == <<"fallback", <<>>>>

\* the adapter returning the error text instead of the fallback
generate_technical_questions_leak(tech_stack, fails) ==
    IF fails THEN <<"An error occurred while generating questions", <<>>>>
    ELSE <<"questions", tech_stack>>

\* generate_technical_questions: the service's text, or the fallback text
\* when the service call raises (fails)
generate_technical_questions(tech_stack, fails) ==
    IF fails THEN Fallback ELSE <<"questions", tech_stack>>

(* ---------------------------- transcript ------------------------------ *)

Farewell == <<"farewell", <<>>>>
Apology == <<"apology", <<>>>>

UserMsg(u) == [role |-> "user", content |-> <<"raw", u>>]
AssistantMsg(c) == [role |-> "assistant", content |-> c]

ValidationErrorMsg(msg) == <<"Validation Error", <<msg>>>>
InputErrorMsg(msg, u) == <<"Input Error", <<msg>> \o u>>

\* the keyword test without .lower()
IsTerminationKeyword_exact(u) ==
    u \in {<<"b","y","e">>, <<"e","x","i","t">>, <<"q","u","i","t">>}

\* the keyword list without "bye"
IsTerminationKeyword_short(u) ==
    lower(u) \in {<<"e","x","i","t">>, <<"q","u","i","t">>}

\* user_input.lower() in ["bye", "exit", "quit"]
IsTerminationKeyword(u) ==
    lower(u) \in {<<"b","y","e">>, <<"e","x","i","t">>, <<"q","u","i","t">>}

IsErrorMsg(m) ==
    m.role = "assistant" /\ m.content[1] \in {"Validation Error", "Input Error"}

ErrorCount == Cardinality({i \in 1..Len(messages) : IsErrorMsg(messages[i])})

(* ------------------------------ inputs -------------------------------- *)

\* The raw inputs the applicant may type: an alphabetic word that float()
\* also reads, an address with an upper-case domain, ten digits, a negative
\* number, a blank and a termination keyword in mixed case.
Inputs ==
    { <<"n","a","n">>,
      <<"a","@","B",".","c","o">>,
      <<"1","2","3","4","5","6","7","8","9","0">>,
      <<"-","1">>,
      <<" ">>,
      <<"B","y","e">> }

(* --------------------------- session state ---------------------------- *)

\* lines 201-214: the session defaults and the first prompt
Init ==
    /\ applicant_info = ApplicantInfo
    /\ messages = <<AssistantMsg(get_next_prompt(ApplicantInfo).prompt)>>
    /\ current_field_to_fill = get_next_prompt(ApplicantInfo).field
    /\ conversation_finished = FALSE
    /\ gen_calls = <<>>

\* the chat input offered in every run
AcceptsInput_always == TRUE

\* line 221: the chat input is offered only while the session is open
AcceptsInput == ~conversation_finished

\* line 236: truthiness of current_field_to_fill
HasPendingField == current_field_to_fill # NoField

\* lines 231-234: a termination keyword ends the session
Terminate(u) ==
    /\ messages' = messages \o <<UserMsg(u), AssistantMsg(Farewell)>>
    /\ conversation_finished' = TRUE
    /\ current_field_to_fill' = NoField
    /\ UNCHANGED <<applicant_info, gen_calls>>

\* Advance without the assignment of line 253
Advance_stale(u, r, np) ==
    /\ applicant_info' = r.profile
    /\ messages' = messages \o <<UserMsg(u), AssistantMsg(np.prompt)>>
    /\ UNCHANGED <<current_field_to_fill, conversation_finished, gen_calls>>

\* lines 246-254: the validated profile is stored and the next field asked
Advance(u, r, np) ==
    /\ applicant_info' = r.profile
    /\ current_field_to_fill' = np.field
    /\ messages' = messages \o <<UserMsg(u), AssistantMsg(np.prompt)>>
    /\ UNCHANGED <<conversation_finished, gen_calls>>

\* Complete with the generation call repeated after a failure
Complete_retry(u, r) ==
    \E fails \in BOOLEAN :
    LET tech_stack == Val(r.profile.tech_stack)
        call == [arg |-> tech_stack, failed |-> fails]
    IN  /\ applicant_info' = r.profile
        /\ gen_calls' = gen_calls \o (IF fails THEN <<call, call>> ELSE <<call>>)
        /\ messages' = messages \o
               <<UserMsg(u),
                 AssistantMsg(<<"ack", tech_stack>>),
                 AssistantMsg(IF fails THEN <<"fallback", <<>>>>
                              ELSE <<"questions", tech_stack>>),
                 AssistantMsg(<<"farewell", <<>>>>)>>
        /\ conversation_finished' = TRUE
        /\ current_field_to_fill' = "None"

\* Complete without the assignment of line 278
Complete_keeps_sentinel(u, r) ==
    \E fails \in BOOLEAN :
    LET tech_stack == Val(r.profile.tech_stack)
    IN  /\ applicant_info' = r.profile
        /\ gen_calls' = Append(gen_calls, [arg |-> tech_stack, failed |-> fails])
        /\ messages' = messages \o
               <<UserMsg(u),
                 AssistantMsg(<<"ack", tech_stack>>),
                 AssistantMsg(IF fails THEN <<"fallback", <<>>>>
                              ELSE <<"questions", tech_stack>>),
                 AssistantMsg(<<"farewell", <<>>>>)>>
        /\ conversation_finished' = TRUE
        /\ current_field_to_fill' = "generate_questions"

\* Complete without the assignment of line 276: the last reply is still
\* the acknowledgment template
Complete_stale_reply(u, r) ==
    \E fails \in BOOLEAN :
    LET tech_stack == Val(r.profile.tech_stack)
    IN  /\ applicant_info' = r.profile
        /\ gen_calls' = Append(gen_calls, [arg |-> tech_stack, failed |-> fails])
        /\ messages' = messages \o
               <<UserMsg(u),
                 AssistantMsg(<<"ack", tech_stack>>),
                 AssistantMsg(IF fails THEN <<"fallback", <<>>>>
                              ELSE <<"questions", tech_stack>>),
                 AssistantMsg(<<"ack_template", <<>>>>)>>
        /\ conversation_finished' = TRUE
        /\ current_field_to_fill' = "None"

\* lines 246-278 and 296-301: the profile is complete; acknowledgment,
\* generated questions and farewell are appended and the session ends
Complete(u, r) ==
    \E fails \in BOOLEAN :
    LET tech_stack == Val(r.profile.tech_stack)
        tech_questions == generate_technical_questions(tech_stack, fails)
    IN  /\ applicant_info' = r.profile
        /\ gen_calls' = Append(gen_calls, [arg |-> tech_stack, failed |-> fails])
        /\ messages' = messages \o <<UserMsg(u),
                                     AssistantMsg(AckMessage(tech_stack)),
                                     AssistantMsg(tech_questions),
                                     AssistantMsg(Farewell)>>
        /\ conversation_finished' = TRUE
        /\ current_field_to_fill' = NoField

\* Reject with the pending field cleared as in the termination branch
Reject_clears(u, r) ==
    /\ ErrorCount < MaxRetries
    /\ messages' = messages \o
          <<UserMsg(u),
            AssistantMsg(IF r.kind = "ValidationError"
                         THEN ValidationErrorMsg(r.msg)
                         ELSE InputErrorMsg(r.msg, u))>>
    /\ current_field_to_fill' = NoField
    /\ UNCHANGED <<applicant_info, conversation_finished, gen_calls>>

\* Reject with the error reply written over the last transcript entry
Reject_overwrites(u, r) ==
    /\ ErrorCount < MaxRetries
    /\ messages' = SubSeq(messages, 1, Len(messages) - 1) \o
          <<UserMsg(u),
            AssistantMsg(IF r.kind = "ValidationError"
                         THEN ValidationErrorMsg(r.msg)
                         ELSE InputErrorMsg(r.msg, u))>>
    /\ UNCHANGED <<applicant_info, current_field_to_fill,
                   conversation_finished, gen_calls>>

\* lines 280-289: the exception becomes the reply; nothing else changes
Reject(u, r) ==
    /\ ErrorCount < MaxRetries
    /\ messages' = messages \o
          <<UserMsg(u),
            AssistantMsg(IF r.kind = "ValidationError"
                         THEN ValidationErrorMsg(r.msg)
                         ELSE InputErrorMsg(r.msg, u))>>
    /\ UNCHANGED <<applicant_info, current_field_to_fill,
                   conversation_finished, gen_calls>>

\* NoPendingField taking "Let's start over" literally: the profile is reset
NoPendingField_restart(u) ==
    /\ messages' = messages \o <<UserMsg(u), AssistantMsg(<<"apology", <<>>>>)>>
    /\ conversation_finished' = TRUE
    /\ applicant_info' = [f \in Fields |-> None]
    /\ UNCHANGED <<current_field_to_fill, gen_calls>>

\* lines 290-294: input although no field is pending
NoPendingField(u) ==
    /\ messages' = messages \o <<UserMsg(u), AssistantMsg(Apology)>>
    /\ conversation_finished' = TRUE
    /\ UNCHANGED <<applicant_info, current_field_to_fill, gen_calls>>

\* lines 221-301: one script run that processes the input u
HandleInput(u) ==
    /\ AcceptsInput
    /\ IF IsTerminationKeyword(u) THEN Terminate(u)
       ELSE IF HasPendingField THEN
            LET r == Update(applicant_info, current_field_to_fill, u) IN
            IF r.ok THEN
                 LET np == get_next_prompt(r.profile) IN
                 IF np.field = GENERATE THEN Complete(u, r)
                 ELSE Advance(u, r, np)
            ELSE Reject(u, r)
       ELSE NoPendingField(u)

Next == \E u \in Inputs : HandleInput(u)

Spec == Init /\ [][Next]_vars

(* ---------------------- the answering applicant ----------------------- *)

\* the applicant supplies a termination keyword
AnswerKeyword ==
    \E u \in {v \in Inputs : IsTerminationKeyword(v)} : HandleInput(u)

\* the applicant supplies a value the pending field accepts: the run
\* appends the input and does not end in an except branch
AnswerValid ==
    \E u \in Inputs :
       /\ ~IsTerminationKeyword(u)
       /\ AcceptsInput
       /\ messages'[Len(messages) + 1] = UserMsg(u)
       /\ ~IsErrorMsg(messages'[Len(messages')])
       /\ HandleInput(u)

AnswerAccepted == AnswerKeyword \/ AnswerValid

\* sessions in which the applicant does not answer with rejected inputs
\* for ever
FairSpec == Init /\ [][Next]_vars /\ WF_vars(AnswerAccepted)

(* ------------- the processing step with no field pending ------------- *)

\* the values field f can hold: what a successful update stores for an input
Storable(f) ==
    {Update(ApplicantInfo, f, u).profile[f] :
        u \in {v \in Inputs : /\ ~IsTerminationKeyword(v)
                               /\ Update(ApplicantInfo, f, v).ok}}

\* the values of the i-th field in a profile with the first k fields populated
FieldChoices(k, i) == IF i <= k THEN Storable(FieldOrder[i]) ELSE {None}

\* the profiles with exactly the first k fields populated
ProfilesFilledTo(k) ==
    [name : FieldChoices(k, 1), email : FieldChoices(k, 2),
     phone : FieldChoices(k, 3), experience : FieldChoices(k, 4),
     position : FieldChoices(k, 5), location : FieldChoices(k, 6),
     tech_stack : FieldChoices(k, 7)]

\* A session as the processing step of lines 221-301 may be handed it, with
\* current_field_to_fill at its default None (line 206) and
\* conversation_finished at its default False (line 208).
InitNoPending ==
    /\ \E k \in 0..7 : applicant_info \in ProfilesFilledTo(k)
    /\ messages = <<AssistantMsg(get_next_prompt(ApplicantInfo).prompt)>>
    /\ current_field_to_fill = NoField
    /\ conversation_finished = FALSE
    /\ gen_calls = <<>>

SpecNoPending == InitNoPending /\ [][Next]_vars

(* ------------------------ vocabulary of the claims -------------------- *)

Populated(p) == {f \in Fields : ~IsNone(p[f])}
PrefixFields(k) == {FieldOrder[i] : i \in 1..k}
AllPopulated(p) == Populated(p) = Fields

IsUser(m) == m.role = "user"
\* the raw inputs processed so far, in order
UserInputs == [i \in 1..Len(SelectSeq(messages, IsUser)) |->
                  SelectSeq(messages, IsUser)[i].content[2]]

\* the step processes the raw input u
Processes(u) ==
    /\ Len(messages') > Len(messages)
    /\ messages'[Len(messages) + 1] = UserMsg(u)

\* messages' is messages followed by exactly the entries of tail
Appends(tail) == messages' = messages \o tail

\* "bye", "exit" or "quit" compared case-insensitively
KeywordCI(u) ==
    \E w \in {<<"b","y","e">>, <<"e","x","i","t">>, <<"q","u","i","t">>} :
       /\ Len(u) = Len(w)
       /\ \A i \in 1..Len(w) : LowerChar(u[i]) = w[i]

\* the constraints of the profile fields
SatName(v) == strip(v) # <<>> /\ \A i \in 1..Len(v) : isalpha(v[i]) \/ isspace(v[i])
SatPhone(v) == Len(v) = 10 /\ \A i \in 1..Len(v) : v[i] \in DecimalSet
SatText(v) == strip(v) # <<>>
Satisfies(f, v) ==
    CASE f = "name" -> SatName(v)
      [] f = "email" -> EmailSyntaxOk(v)
      [] f = "phone" -> SatPhone(v)
      [] f = "experience" -> AtLeastZero(v)
      [] OTHER -> SatText(v)

\* the raw input is a valid answer for field f
RawValid(f, u) ==
    IF f = "experience"
    THEN ~IsNone(ParseFloat(u)) /\ AtLeastZero(Val(ParseFloat(u)))
    ELSE Satisfies(f, u)

Status ==
    IF conversation_finished THEN "finished"
    ELSE IF AllPopulated(applicant_info) \/ current_field_to_fill = GENERATE
         THEN "awaiting_generation"
    ELSE "collecting"
StatusRank(st) ==
    CASE st = "collecting" -> 0 [] st = "awaiting_generation" -> 1 [] OTHER -> 2

(* -------------------------------- C1 ---------------------------------- *)

\* C1: every profile field is absent or satisfies its constraint.
C1_ProfileNeverInvalid ==
    \A f \in Fields :
       IsNone(applicant_info[f]) \/ Satisfies(f, Val(applicant_info[f]))

(* -------------------------------- C2 ---------------------------------- *)

\* C2: an input that is not a termination keyword and fails validation for
\* the pending field leaves profile, pending field and finished flag
\* unchanged (still collecting) and appends the input and exactly one
\* assistant error message.
C2_RejectedInputChangesNothing ==
    [][\A u \in Inputs :
         (/\ Processes(u)
          /\ ~KeywordCI(u)
          /\ current_field_to_fill \in Fields
          /\ ~Update(applicant_info, current_field_to_fill, u).ok)
         => /\ UNCHANGED <<applicant_info, current_field_to_fill,
                           conversation_finished, gen_calls>>
            /\ ~conversation_finished'
            /\ \E m \in {messages'[Len(messages')]} :
                  IsErrorMsg(m) /\ Appends(<<UserMsg(u), m>>)]_vars

\* two consecutive rejections for the same field: a negative number, then
\* a parse error
C2_Witness ==
    /\ ~conversation_finished
    /\ current_field_to_fill = "experience"
    /\ Len(messages) >= 4
    /\ messages[Len(messages)].content[1] = "Input Error"
    /\ messages[Len(messages) - 2].content[1] = "Validation Error"

(* -------------------------------- C3 ---------------------------------- *)

\* C3: the generation adapter is called at most once, exactly in the turn
\* that stores tech_stack and with the stored tech_stack value; it is never
\* called while a field is absent.
C3_GenerationExactlyOnceAtCompletion ==
    /\ [](/\ Len(gen_calls) <= 1
          /\ Len(gen_calls) = 1 <=> AllPopulated(applicant_info)
          /\ Len(gen_calls) = 1
                => gen_calls[1].arg = Val(applicant_info.tech_stack))
    /\ [][gen_calls' # gen_calls
            <=> (IsNone(applicant_info.tech_stack)
                 /\ ~IsNone(applicant_info'.tech_stack))]_vars

C3_Witness ==
    /\ Len(gen_calls) = 1
    /\ AllPopulated(applicant_info)
    /\ gen_calls[1].arg = <<"-","1">>

(* -------------------------------- C4 ---------------------------------- *)

\* C4: a termination keyword (case-insensitive) while a field is pending
\* finishes the session with the farewell, leaves the profile as it was,
\* clears the pending field and does not call the generation adapter.
C4_KeywordEndsSession ==
    [][\A u \in Inputs :
         (Processes(u) /\ KeywordCI(u) /\ current_field_to_fill \in Fields)
         => /\ conversation_finished'
            /\ Appends(<<UserMsg(u), AssistantMsg(Farewell)>>)
            /\ applicant_info' = applicant_info
            /\ current_field_to_fill' = NoField
            /\ gen_calls' = gen_calls]_vars

\* "Bye" typed while the phone number was pending
C4_Witness ==
    /\ conversation_finished
    /\ Populated(applicant_info) = PrefixFields(2)
    /\ messages[Len(messages) - 1] = UserMsg(<<"B","y","e">>)
    /\ messages[Len(messages)] = AssistantMsg(Farewell)
    /\ current_field_to_fill = NoField
    /\ gen_calls = <<>>

(* -------------------------------- C5 ---------------------------------- *)

\* seven inputs were processed, the i-th valid for the i-th field
SevenValidInputs ==
    /\ Len(UserInputs) = 7
    /\ \A i \in 1..7 : /\ ~KeywordCI(UserInputs[i])
                       /\ RawValid(FieldOrder[i], UserInputs[i])

\* the value the i-th input supplies for its field
Supplied(i) ==
    IF FieldOrder[i] = "experience" THEN ParseFloat(UserInputs[i])
    ELSE Some(UserInputs[i])

\* the supplied address with surrounding whitespace removed and its domain
\* in lower case
SuppliedNormalized(i) ==
    LET s == strip(UserInputs[i])
        at == CHOOSE k \in 1..Len(s) : s[k] = "@"
    IN  Some([k \in 1..Len(s) |-> IF k > at THEN LowerChar(s[k]) ELSE s[k]])

\* C5 as claimed: after seven valid inputs the session is finished, the
\* adapter was called once with the seventh input and every field holds the
\* value supplied.
C5_SevenValidInputs_AsClaimed ==
    SevenValidInputs
    => /\ conversation_finished
       /\ Len(gen_calls) = 1
       /\ gen_calls[1].arg = UserInputs[7]
       /\ \A i \in 1..7 : applicant_info[FieldOrder[i]] = Supplied(i)

\* C5 amended: as above, except that email holds the supplied address in
\* normalized form (whitespace stripped, domain lower-cased).
C5_SevenValidInputs ==
    SevenValidInputs
    => /\ conversation_finished
       /\ Len(gen_calls) = 1
       /\ gen_calls[1].arg = UserInputs[7]
       /\ \A i \in 1..7 :
             applicant_info[FieldOrder[i]] =
                IF FieldOrder[i] = "email" THEN SuppliedNormalized(i)
                ELSE Supplied(i)

C5_Witness ==
    /\ SevenValidInputs
    /\ conversation_finished
    /\ AllPopulated(applicant_info)
    /\ Val(applicant_info.email) # UserInputs[2]

(* -------------------------------- C6 ---------------------------------- *)

\* C6: when the generation service fails, the session is finished with all
\* seven values kept, and the transcript ends with the acknowledgment, the
\* fixed fallback text and the farewell.
C6_GenerationFailureAbsorbed ==
    (Len(gen_calls) >= 1 /\ gen_calls[Len(gen_calls)].failed)
    => /\ conversation_finished
       /\ AllPopulated(applicant_info)
       /\ Len(messages) >= 3
       /\ SubSeq(messages, Len(messages) - 2, Len(messages)) =
             << AssistantMsg(<<"ack", Val(applicant_info.tech_stack)>>),
                AssistantMsg(<<"fallback", <<>>>>),
                AssistantMsg(<<"farewell", <<>>>>) >>

C6_Witness ==
    /\ Len(gen_calls) = 1
    /\ gen_calls[1].failed
    /\ conversation_finished
    /\ messages[Len(messages) - 1].content[1] = "fallback"

(* -------------------------------- C7 ---------------------------------- *)

AskTag == [name |-> "ask_name", email |-> "ask_email", phone |-> "ask_phone",
           experience |-> "ask_experience", position |-> "ask_position",
           location |-> "ask_location", tech_stack |-> "ask_tech_stack"]

TimesAsked(f) ==
    Cardinality({i \in 1..Len(messages) :
                    /\ messages[i].role = "assistant"
                    /\ messages[i].content[1] = AskTag[f]})

\* C7: the populated fields are a prefix of the fixed order, and the
\* question for a field is appended to the transcript at most once.
C7_FilledInOrderAskedOnce ==
    /\ \E k \in 0..7 : Populated(applicant_info) = PrefixFields(k)
    /\ \A f \in Fields : TimesAsked(f) <= 1

\* a complete session with rejected inputs on the way: every question once
C7_Witness ==
    /\ AllPopulated(applicant_info)
    /\ ErrorCount >= 2
    /\ \A f \in Fields : TimesAsked(f) = 1

(* -------------------------------- C8 ---------------------------------- *)

\* C8: on a profile with exactly the first k fields populated,
\* get_next_prompt targets the (k+1)-th field for k = 0..6 and, for k = 7,
\* returns the acknowledgment prompt with the generate sentinel.
C8_NextPromptIsFirstAbsent ==
    \A k \in 0..7 :
       Populated(applicant_info) = PrefixFields(k)
       => IF k < 7
          THEN /\ get_next_prompt(applicant_info).field = FieldOrder[k + 1]
               /\ get_next_prompt(applicant_info).prompt[1] = AskTag[FieldOrder[k + 1]]
          ELSE /\ get_next_prompt(applicant_info).field = "generate_questions"
               /\ get_next_prompt(applicant_info).field \notin Fields
               /\ get_next_prompt(applicant_info).prompt[1] = "ack_template"

C8_Witness ==
    /\ Populated(applicant_info) = PrefixFields(7)
    /\ get_next_prompt(applicant_info).field = "generate_questions"

(* -------------------------------- C9 ---------------------------------- *)

\* C9: the status never moves backwards, and once the session is finished
\* no step changes profile, pending field, finished flag or transcript.
C9_StatusOnlyForward ==
    [][/\ StatusRank(Status') >= StatusRank(Status)
       /\ conversation_finished
             => UNCHANGED <<applicant_info, current_field_to_fill,
                            conversation_finished, messages>>]_vars

\* finished by early exit with five fields collected
C9_Witness ==
    /\ Status = "finished"
    /\ Populated(applicant_info) = PrefixFields(5)

(* -------------------------------- C10 --------------------------------- *)

\* C10: a successful update of the pending field yields a profile that
\* differs from the previous one exactly in that field, which goes from
\* absent to populated; a failed update leaves the profile as it was.
C10_UpdateChangesOneField ==
    [][\A u \in Inputs :
         (Processes(u) /\ ~KeywordCI(u) /\ current_field_to_fill \in Fields)
         => LET r == Update(applicant_info, current_field_to_fill, u) IN
            IF r.ok
            THEN /\ applicant_info' = r.profile
                 /\ IsNone(applicant_info[current_field_to_fill])
                 /\ ~IsNone(applicant_info'[current_field_to_fill])
                 /\ \A f \in Fields \ {current_field_to_fill} :
                       applicant_info'[f] = applicant_info[f]
            ELSE applicant_info' = applicant_info]_vars

\* four fields stored one by one, with a failed update in between
C10_Witness ==
    /\ Populated(applicant_info) = PrefixFields(4)
    /\ ErrorCount = 1
    /\ ~conversation_finished

(* -------------------------------- C11 --------------------------------- *)

\* C11: the transcript is append-only (after every step the transcript
\* before the step is a prefix of it) and every entry has role user or
\* assistant.
C11_TranscriptAppendOnly ==
    /\ [](\A i \in 1..Len(messages) : messages[i].role \in {"user", "assistant"})
    /\ [][/\ Len(messages') >= Len(messages)
          /\ SubSeq(messages', 1, Len(messages)) = messages]_vars

\* a transcript grown over accepted and rejected inputs, both roles present
C11_Witness ==
    /\ Len(messages) >= 7
    /\ ErrorCount >= 1
    /\ \E i \in 1..Len(messages) : messages[i].role = "user"
    /\ messages[1].role = "assistant"

(* -------------------------------- C12 --------------------------------- *)

\* C12: the profile starts empty, gains at most one field per processed
\* input, and no step changes a profile with all seven fields populated.
C12_ProfileLifecycle ==
    /\ Populated(applicant_info) = {}
    /\ [][/\ Cardinality(Populated(applicant_info'))
                <= Cardinality(Populated(applicant_info)) + 1
          /\ AllPopulated(applicant_info)
                => applicant_info' = applicant_info]_vars

\* the completed profile, reached one field at a time
C12_Witness ==
    /\ AllPopulated(applicant_info)
    /\ Len(UserInputs) = 7
    /\ ErrorCount = 0

(* -------------------------------- C15 --------------------------------- *)

\* the first absent field of p in the fixed order
FirstAbsent(p) ==
    FieldOrder[CHOOSE i \in 1..7 :
                  /\ IsNone(p[FieldOrder[i]])
                  /\ \A j \in 1..(i - 1) : ~IsNone(p[FieldOrder[j]])]

\* C15: while the session is not finished a field is pending and it is the
\* first absent field of the profile; the apology is never emitted; the
\* pending field is cleared only in a step that sets finished.
C15_PendingIsFirstAbsent ==
    /\ [](~conversation_finished
            => (/\ current_field_to_fill \in Fields
                /\ ~AllPopulated(applicant_info)
                /\ current_field_to_fill = FirstAbsent(applicant_info)))
    /\ [](\A i \in 1..Len(messages) : messages[i].content[1] # "apology")
    /\ [][(current_field_to_fill # "None" /\ current_field_to_fill' = "None")
            => (~conversation_finished /\ conversation_finished')]_vars

\* input is accepted with location pending, after rejected inputs
C15_Witness ==
    /\ ~conversation_finished
    /\ current_field_to_fill = "location"
    /\ Populated(applicant_info) = PrefixFields(5)
    /\ ErrorCount = 2

(* -------------------------------- C16 --------------------------------- *)

\* the transcript ends with acknowledgment, generation result and farewell
FinishedByGeneration ==
    /\ conversation_finished
    /\ Len(messages) >= 4
    /\ messages[Len(messages) - 2].content[1] = "ack"
    /\ messages[Len(messages) - 1].content[1] \in {"questions", "fallback"}
    /\ messages[Len(messages)] = AssistantMsg(<<"farewell", <<>>>>)

\* C16: between turns the pending marker is never the generate sentinel
\* and the status is never awaiting_generation; "all seven fields
\* populated", "the adapter was called exactly once" and "finished through
\* the generation path" are equivalent, and a full profile implies finished.
C16_NeverAwaitingGeneration ==
    /\ current_field_to_fill # "generate_questions"
    /\ Status # "awaiting_generation"
    /\ Len(gen_calls) <= 1
    /\ AllPopulated(applicant_info) <=> (Len(gen_calls) = 1)
    /\ AllPopulated(applicant_info) <=> FinishedByGeneration
    /\ AllPopulated(applicant_info) => conversation_finished

\* a session completed after one rejected input, generation succeeded
C16_Witness ==
    /\ AllPopulated(applicant_info)
    /\ FinishedByGeneration
    /\ Len(gen_calls) = 1
    /\ ~gen_calls[1].failed
    /\ ErrorCount = 1

(* -------------------------------- C17 --------------------------------- *)

\* the step stores the last absent field
CompletingStep ==
    ~AllPopulated(applicant_info) /\ AllPopulated(applicant_info')

\* C17: the transcript starts with the name prompt; every step appends one
\* user entry holding the raw input, followed by assistant entries only:
\* three on the completing turn (acknowledgment with the tech_stack value,
\* generation result or fallback, farewell), otherwise exactly one.
C17_TurnShape ==
    /\ [](messages[1] = AssistantMsg(<<"ask_name", <<>>>>))
    /\ [][\E u \in Inputs :
            LET n == Len(messages)
                added == Len(messages') - n
            IN  /\ SubSeq(messages', 1, n + 1) = Append(messages, UserMsg(u))
                /\ \A i \in (n + 2)..Len(messages') :
                      messages'[i].role = "assistant"
                /\ IF CompletingStep
                   THEN /\ added = 4
                        /\ messages'[n + 2] = AssistantMsg(
                              <<"ack", Val(applicant_info'.tech_stack)>>)
                        /\ messages'[n + 3].content[1] \in {"questions", "fallback"}
                        /\ messages'[n + 4] = AssistantMsg(<<"farewell", <<>>>>)
                   ELSE /\ added = 2
                        /\ messages'[n + 2].content[1] \in
                              {"ask_email", "ask_phone", "ask_experience",
                               "ask_position", "ask_location", "ask_tech_stack",
                               "Validation Error", "Input Error",
                               "farewell", "apology"}]_vars

\* a completed session whose transcript holds every kind of turn but the
\* early exit: advances, a validation error, a parse error, the completion
C17_Witness ==
    /\ AllPopulated(applicant_info)
    /\ messages[Len(messages) - 1].content[1] = "questions"
    /\ \E i \in 1..Len(messages) : messages[i].content[1] = "Validation Error"
    /\ \E i \in 1..Len(messages) : messages[i].content[1] = "Input Error"

(* -------------------------------- C18 --------------------------------- *)

\* C18: no populated text field holds "bye", "exit" or "quit" in any case.
C18_NoKeywordStored ==
    \A f \in {"name", "email", "phone", "position", "location", "tech_stack"} :
       IsNone(applicant_info[f]) \/ ~KeywordCI(Val(applicant_info[f]))

\* "Bye" typed for position, whose validator accepts it, was not stored
C18_Witness ==
    /\ conversation_finished
    /\ Populated(applicant_info) = PrefixFields(4)
    /\ messages[Len(messages) - 1] = UserMsg(<<"B","y","e">>)
    /\ validate_not_empty(<<"B","y","e">>).ok

(* -------------------------------- C14 --------------------------------- *)

\* C14: a non-keyword input processed while the session is not finished
\* and no field is pending finishes the session with the apology, leaves
\* the profile unchanged (nothing is validated or stored) and does not call
\* the generation adapter.
C14_NoPendingFieldEndsSession ==
    [][\A u \in Inputs :
         (/\ Processes(u)
          /\ ~KeywordCI(u)
          /\ ~conversation_finished
          /\ current_field_to_fill = "None")
         => /\ conversation_finished'
            /\ Appends(<<UserMsg(u), AssistantMsg(<<"apology", <<>>>>)>>)
            /\ applicant_info' = applicant_info
            /\ gen_calls' = gen_calls]_vars

\* the apology after an email address was typed with three fields stored
C14_Witness ==
    /\ conversation_finished
    /\ Populated(applicant_info) = PrefixFields(3)
    /\ messages[Len(messages) - 1] = UserMsg(<<"a","@","B",".","c","o">>)
    /\ messages[Len(messages)] = AssistantMsg(<<"apology", <<>>>>)
    /\ gen_calls = <<>>

(* -------------------------------- C19 --------------------------------- *)

\* the turns that stored a field: the reply is a question or the
\* acknowledgment
SuccessfulUpdates ==
    Cardinality({i \in 1..(Len(messages) - 1) :
                    /\ messages[i].role = "user"
                    /\ messages[i + 1].content[1] \notin
                          {"Validation Error", "Input Error", "farewell", "apology"}})

\* C19: if the applicant eventually supplies a valid value or a termination
\* keyword for each pending field, the session eventually is finished, and
\* no session has more than seven successful updates.
C19_EventuallyFinished ==
    /\ <>conversation_finished
    /\ [](SuccessfulUpdates <= 7)

\* finished after seven successful updates and two rejected inputs
C19_Witness ==
    /\ conversation_finished
    /\ SuccessfulUpdates = 7
    /\ ErrorCount = 2

====
